---- MODULE Spec2Model ----
(***************************************************************************)
(* Model of the Sudoku solver of wasm/src/solver.rs: the branch selector   *)
(* (get_best_options), the two depth-first solvers (solution,              *)
(* solution_iter), the unsolvability checker (is_unsolvable), the bounded  *)
(* contradiction checker and the hint deducer, together with the solving   *)
(* loop of the tests (solve_by_hints) and the abort lock.                  *)
(*                                                                         *)
(* The board, the flags, the perfect-matching oracle and the abort lock    *)
(* live in other files of the crate; they are modelled from their          *)
(* documented interface.                                                   *)
(***************************************************************************)
EXTENDS Integers, Sequences, FiniteSets, TLC

VARIABLES sudoku, aborted, op, arg, lockAtCall, ret, it, pulls, cur, steps

vars == <<sudoku, aborted, op, arg, lockAtCall, ret, it, pulls, cur, steps>>

(***************************************************************************)
(* Sizes.  The tests load boards with box size 2 (a 4x4 grid) and 3.       *)
(***************************************************************************)
BoxSize == 2

BoardSize == BoxSize * BoxSize

Digits == 1 .. BoardSize

NCells == BoardSize * BoardSize

(***************************************************************************)
(* Board (crate::sudoku).  A board is the row-major sequence of its cells, *)
(* 0 for an empty cell; a position is <<x, y>>, column x of row y.         *)
(***************************************************************************)
Idx(pos) == pos[2] * BoardSize + pos[1] + 1

PosOf(i) == <<(i - 1) % BoardSize, (i - 1) \div BoardSize>>

\* sudoku.iter(): the positions in row-major order
Cells == [i \in 1 .. NCells |-> PosOf(i)]

Get(s, pos) == s[Idx(pos)]

\* sudoku.set(pos, digit): a new board
Set(s, pos, digit) == [s EXCEPT ![Idx(pos)] = digit]

SameRow(p, q) == p[2] = q[2]

SameColumn(p, q) == p[1] = q[1]

SameBox(p, q) ==
  /\ p[1] \div BoxSize = q[1] \div BoxSize
  /\ p[2] \div BoxSize = q[2] \div BoxSize

\* for every cell, the other cells of its row, its column and its box
PeerTable ==
  [i \in 1 .. NCells |->
     {j \in 1 .. NCells :
        /\ j # i
        /\ \/ SameRow(PosOf(j), PosOf(i))
           \/ SameColumn(PosOf(j), PosOf(i))
           \/ SameBox(PosOf(j), PosOf(i))}]

Peers(pos) == PeerTable[Idx(pos)]

\* sudoku.used(pos): the digits already placed in the row, column and box of pos
used(s, pos) == {s[i] : i \in Peers(pos)} \ {0}

\* flags.inverse(board_size): the complement within 1 .. board_size
inverse(flags) == Digits \ flags

\* sudoku.available(pos): the digits consistent with row, column and box;
\* a filled cell admits its own digit only
available(s, pos) ==
  IF Get(s, pos) # 0 THEN {Get(s, pos)} ELSE inverse(used(s, pos))

\* flags.size()
size(flags) == Cardinality(flags)

\* flags.to_vec(): the digits in ascending order
to_vec(flags) == SelectSeq([d \in 1 .. BoardSize |-> d], LAMBDA d : d \in flags)

\* Flags::from_vec
from_vec(vec) == {vec[i] : i \in 1 .. Len(vec)}

iter_row_avail(s, y) == [x \in 1 .. BoardSize |-> available(s, <<x - 1, y>>)]

iter_column_avail(s, x) == [y \in 1 .. BoardSize |-> available(s, <<x, y - 1>>)]

iter_box_avail(s, bpos) ==
  [k \in 1 .. BoardSize |->
     available(s, <<bpos[1] * BoxSize + ((k - 1) % BoxSize),
                    bpos[2] * BoxSize + ((k - 1) \div BoxSize)>>)]

\* sudoku.is_solved(): full, and no digit twice in a row, column or box
is_solved(s) ==
  \A i \in 1 .. NCells : s[i] # 0 /\ s[i] \notin used(s, PosOf(i))

(***************************************************************************)
(* crate::matching: is there a system of distinct representatives?         *)
(***************************************************************************)
RECURSIVE Matching(_, _, _)
Matching(sets, i, taken) ==
  \/ i > Len(sets)
  \/ \E d \in sets[i] \ taken : Matching(sets, i + 1, taken \cup {d})

has_perfect_matching(sets) == Matching(sets, 1, {})

(***************************************************************************)
(* Option values: <<>> is None, <<v>> is Some(v).                          *)
(***************************************************************************)
None == <<>>

Some(v) == <<v>>

EmptyCells(s) == SelectSeq(Cells, LAMBDA p : Get(s, p) = 0)

\* Iterator::min_by with partial_cmp on Flags (the order by cardinality): among
\* equal minima min_by returns the first
MinBySize(options) ==
  IF options = <<>> THEN None
  ELSE LET i == CHOOSE i \in 1 .. Len(options) :
                  /\ \A j \in 1 .. Len(options) :
                       Cardinality(options[i][1]) <= Cardinality(options[j][1])
                  /\ \A j \in 1 .. i - 1 :
                       Cardinality(options[j][1]) # Cardinality(options[i][1])
       IN Some(options[i])

\* Itertools::sorted_by on the size of the first component: a stable sort
RECURSIVE SortedFrom(_, _)
SortedFrom(options, k) ==
  IF k > BoardSize THEN <<>>
  ELSE SelectSeq(options, LAMBDA o : Cardinality(o[1]) = k)
         \o SortedFrom(options, k + 1)

SortedBySize(options) == SortedFrom(options, 0)

(***************************************************************************)
(* is_unsolvable                                                           *)
(***************************************************************************)
\* is_unsolvable with the size test off by one (size() < 2)
is_unsolvable_off_by_one(s) ==
  LET empties == EmptyCells(s)
      fields == [i \in 1 .. Len(empties) |-> <<inverse(used(s, empties[i])), empties[i]>>]
      least == MinBySize(fields)
      is_field_out_of_options == least # None /\ size(least[1][1]) < 2
      row_without_solution ==
        \E y \in 0 .. BoardSize - 1 : ~has_perfect_matching(iter_row_avail(s, y))
      column_without_solution ==
        \E x \in 0 .. BoardSize - 1 : ~has_perfect_matching(iter_column_avail(s, x))
      box_without_solution ==
        \E x \in 0 .. BoxSize - 1 : \E y \in 0 .. BoxSize - 1 :
           ~has_perfect_matching(iter_box_avail(s, <<x, y>>))
  IN is_field_out_of_options \/ row_without_solution
       \/ column_without_solution \/ box_without_solution

is_unsolvable(s) ==
  LET empties == EmptyCells(s)
      fields == [i \in 1 .. Len(empties) |-> <<inverse(used(s, empties[i])), empties[i]>>]
      least == MinBySize(fields)
      is_field_out_of_options == least # None /\ size(least[1][1]) < 1
      row_without_solution ==
        \E y \in 0 .. BoardSize - 1 : ~has_perfect_matching(iter_row_avail(s, y))
      column_without_solution ==
        \E x \in 0 .. BoardSize - 1 : ~has_perfect_matching(iter_column_avail(s, x))
      box_without_solution ==
        \E x \in 0 .. BoxSize - 1 : \E y \in 0 .. BoxSize - 1 :
           ~has_perfect_matching(iter_box_avail(s, <<x, y>>))
  IN is_field_out_of_options \/ row_without_solution
       \/ column_without_solution \/ box_without_solution

(***************************************************************************)
(* get_best_options                                                        *)
(***************************************************************************)
\* get_best_options whose filter lost its negation: it keeps the digits that
\* make the board unsolvable
get_best_options_kept_unsolvable(s) ==
  LET empties == EmptyCells(s)
      options == [i \in 1 .. Len(empties) |-> <<available(s, empties[i]), empties[i]>>]
      min_option_pos == MinBySize(options)
  IN IF min_option_pos # None /\ size(min_option_pos[1][1]) > 1
     THEN MinBySize([i \in 1 .. Len(options) |->
            <<from_vec(SelectSeq(to_vec(options[i][1]),
                 LAMBDA digit : is_unsolvable(Set(s, options[i][2], digit)))),
              options[i][2]>>])
     ELSE min_option_pos

get_best_options(s) ==
  LET empties == EmptyCells(s)
      options == [i \in 1 .. Len(empties) |-> <<available(s, empties[i]), empties[i]>>]
      min_option_pos == MinBySize(options)
  IN IF min_option_pos # None /\ size(min_option_pos[1][1]) > 1
     THEN MinBySize([i \in 1 .. Len(options) |->
            <<from_vec(SelectSeq(to_vec(options[i][1]),
                 LAMBDA digit : ~is_unsolvable(Set(s, options[i][2], digit)))),
              options[i][2]>>])
     ELSE min_option_pos

(***************************************************************************)
(* solution                                                                *)
(***************************************************************************)
RECURSIVE solution(_, _)
RECURSIVE SolutionFold(_, _, _, _)
\* the fold taking the digits from the largest down
RECURSIVE SolutionFold_descending(_, _, _, _)
SolutionFold_descending(s, pos, digits, lock) ==
  IF digits = <<>> THEN None
  ELSE LET r == solution(Set(s, pos, digits[Len(digits)]), lock)
       IN IF r # None THEN r
          ELSE SolutionFold_descending(s, pos, SubSeq(digits, 1, Len(digits) - 1), lock)

\* the fold over flags.to_vec(): the first digit whose recursive call succeeds
SolutionFold(s, pos, digits, lock) ==
  IF digits = <<>> THEN None
  ELSE LET r == solution(Set(s, pos, Head(digits)), lock)
       IN IF r # None THEN r ELSE SolutionFold(s, pos, Tail(digits), lock)

solution(s, lock) ==
  IF lock THEN None
  ELSE LET best == get_best_options(s)
       IN IF best = None THEN Some(s)
          ELSE SolutionFold(s, best[1][2], to_vec(best[1][1]), lock)

(***************************************************************************)
(* solution_iter.  The boxed iterator is a chain of adaptors: a FlatMap    *)
(* over the remaining digits whose front iterator is again a boxed         *)
(* iterator, ending in a vec::IntoIter.  The chain is kept as a sequence   *)
(* of frames, outermost first; frame k + 1 is the front iterator of frame  *)
(* k.  rest holds the boards an IntoIter still has to yield, or the digits *)
(* a FlatMap still has to map.                                             *)
(***************************************************************************)
IntoIter(boards) == [kind |-> "IntoIter", rest |-> boards, sudoku |-> <<>>, pos |-> <<>>]

FlatMap(digits, s, pos) == [kind |-> "FlatMap", rest |-> digits, sudoku |-> s, pos |-> pos]

\* solution_iter without the test of the lock
solution_iter_unchecked(s, lock) ==
  LET best == get_best_options(s)
  IN IF best = None THEN IntoIter(<<s>>)
     ELSE FlatMap(to_vec(best[1][1]), s, best[1][2])

\* what a call of solution_iter does before it returns the (lazy) iterator
solution_iter(s, lock) ==
  IF lock THEN IntoIter(<<>>)
  ELSE LET best == get_best_options(s)
       IN IF best = None THEN IntoIter(<<s>>)
          ELSE FlatMap(to_vec(best[1][1]), s, best[1][2])

\* Iterator::next on the chain: [it |-> the chain afterwards, out |-> the item]
RECURSIVE next(_, _)
next(frames, lock) ==
  LET n == Len(frames)
      top == frames[n]
  IN IF top.rest # <<>>
     THEN IF top.kind = "IntoIter"
          THEN [it |-> [frames EXCEPT ![n].rest = Tail(@)], out |-> Some(Head(top.rest))]
          ELSE next(Append([frames EXCEPT ![n].rest = Tail(@)],
                           solution_iter(Set(top.sudoku, top.pos, Head(top.rest)), lock)),
                    lock)
     ELSE IF n = 1
          THEN [it |-> frames, out |-> None]
          ELSE next(SubSeq(frames, 1, n - 1), lock)

(***************************************************************************)
(* contradiction                                                           *)
(***************************************************************************)
RECURSIVE contradiction(_, _, _)
\* contradiction that tries the first cell of the sorted options only
contradiction_first_cell(s, level, lock) ==
  IF lock THEN FALSE
  ELSE IF level = 0 THEN FALSE
  ELSE IF level = 1 THEN is_unsolvable(s)
  ELSE LET empties == EmptyCells(s)
           options == SortedBySize(
             [i \in 1 .. Len(empties) |-> <<inverse(used(s, empties[i])), empties[i]>>])
       IN /\ options # <<>>
          /\ LET digits == to_vec(options[1][1])
             IN \A j \in 1 .. Len(digits) :
                  LET updated_sudoku == Set(s, options[1][2], digits[j])
                  IN is_unsolvable(updated_sudoku)
                       \/ contradiction(updated_sudoku, level - 1, lock)

contradiction(s, level, lock) ==
  IF lock THEN FALSE
  ELSE IF level = 0 THEN FALSE
  ELSE IF level = 1 THEN is_unsolvable(s)
  ELSE LET empties == EmptyCells(s)
           options == SortedBySize(
             [i \in 1 .. Len(empties) |-> <<inverse(used(s, empties[i])), empties[i]>>])
       IN \E i \in 1 .. Len(options) :
            LET digits == to_vec(options[i][1])
            IN \A j \in 1 .. Len(digits) :
                 LET updated_sudoku == Set(s, options[i][2], digits[j])
                 IN is_unsolvable(updated_sudoku)
                      \/ contradiction(updated_sudoku, level - 1, lock)

(***************************************************************************)
(* hint                                                                    *)
(***************************************************************************)
\* Iterator::min_by on the length of the first component: the first minimum
MinByLen(options) ==
  IF options = <<>> THEN None
  ELSE LET i == CHOOSE i \in 1 .. Len(options) :
                  /\ \A j \in 1 .. Len(options) : Len(options[i][1]) <= Len(options[j][1])
                  /\ \A j \in 1 .. i - 1 : Len(options[j][1]) # Len(options[i][1])
       IN Some(options[i])

\* Itertools::sorted_by on the length of the first component: a stable sort
RECURSIVE SortedFromLen(_, _)
SortedFromLen(options, k) ==
  IF k > BoardSize THEN <<>>
  ELSE SelectSeq(options, LAMBDA o : Len(o[1]) = k) \o SortedFromLen(options, k + 1)

SortedByLen(options) == SortedFromLen(options, 0)

\* the loop returning the first move of the minimal cell even when more
\* than one is left
RECURSIVE HintLoop_first_move(_, _, _, _, _)
HintLoop_first_move(s, options, level, max_level, lock) ==
  IF level > max_level THEN None
  ELSE IF lock THEN None
  ELSE LET filtered == [i \in 1 .. Len(options) |->
             <<SelectSeq(options[i][1],
                         LAMBDA digit : ~contradiction(Set(s, options[i][2], digit), level, lock)),
               options[i][2]>>]
           minimal_options == MinByLen(filtered)
       IN IF minimal_options = None THEN None
          ELSE LET moves == minimal_options[1][1]
                   pos == minimal_options[1][2]
               IN IF Len(moves) = 0 THEN None
                  ELSE Some(<<moves[1], pos, level>>)

\* the body of the loop over level, from `level` on
RECURSIVE HintLoop(_, _, _, _, _)
HintLoop(s, options, level, max_level, lock) ==
  IF level > max_level THEN None
  ELSE IF lock THEN None
  ELSE LET filtered == [i \in 1 .. Len(options) |->
             <<SelectSeq(options[i][1],
                         LAMBDA digit : ~contradiction(Set(s, options[i][2], digit), level, lock)),
               options[i][2]>>]
           minimal_options == MinByLen(filtered)
       IN IF minimal_options = None THEN None
          ELSE LET moves == minimal_options[1][1]
                   pos == minimal_options[1][2]
               IN IF Len(moves) = 0 THEN None
                  ELSE IF Len(moves) = 1 THEN Some(<<moves[1], pos, level>>)
                  ELSE HintLoop(s, filtered, level + 1, max_level, lock)

\* hint that forgot to keep the empty cells only
hint_unfiltered(s, max_level, lock) ==
  LET options == SortedByLen(
        [i \in 1 .. NCells |-> <<to_vec(available(s, Cells[i])), Cells[i]>>])
  IN HintLoop(s, options, 0, max_level, lock)

hint(s, max_level, lock) ==
  LET empties == EmptyCells(s)
      options == SortedByLen(
        [i \in 1 .. Len(empties) |-> <<to_vec(available(s, empties[i])), empties[i]>>])
  IN HintLoop(s, options, 0, max_level, lock)

(***************************************************************************)
(* Input boards.  Solved is the grid the solver finds for the board of     *)
(* test::trivial_solution.  The inputs are that grid with the first        *)
(* WindowLen cells of Window overwritten by anything (empty, the right     *)
(* digit, a wrong digit: partial, full and conflicting boards), the board  *)
(* Sparse overwritten in the same way (sparse boards with one, several and *)
(* no completion), the board of the test and the board Rectangle.          *)
(***************************************************************************)
WindowLen == 3

MaxLevel == 2

Solved ==
  << 4, 2, 1, 3,
     3, 1, 4, 2,
     2, 4, 3, 1,
     1, 3, 2, 4 >>

\* the board of test::trivial_solution and test::trivial_solution_by_hints
Trivial ==
  << 0, 0, 0, 3,
     3, 0, 0, 2,
     2, 0, 0, 1,
     1, 0, 0, 0 >>

\* a board with several solutions whose first hint needs level 2
Sparse ==
  << 0, 0, 0, 0,
     0, 1, 0, 2,
     0, 4, 0, 0,
     1, 0, 0, 4 >>

\* Solved with the four cells of an interchangeable rectangle emptied
Rectangle ==
  << 0, 0, 1, 3,
     3, 1, 4, 2,
     0, 0, 3, 1,
     1, 3, 2, 4 >>

Window == << <<0, 0>>, <<1, 0>>, <<0, 2>>, <<1, 2>>, <<3, 3>>, <<2, 1>> >>

WindowCells == {Idx(Window[k]) : k \in 1 .. WindowLen}

WindowBoards(base) ==
  {[i \in 1 .. NCells |-> IF i \in WindowCells THEN f[i] ELSE base[i]] :
     f \in [WindowCells -> 0 .. BoardSize]}

Inputs == WindowBoards(Solved) \cup WindowBoards(Sparse) \cup {Trivial, Rectangle}

(***************************************************************************)
(* The callers.  One behaviour is one use of the solver on one board: the  *)
(* lock may be set at any time (AbortLock, set by another actor, never     *)
(* reset); the caller invokes one operation, and for solution_iter then    *)
(* pulls from the iterator as test::collect_all does.                      *)
(***************************************************************************)
Init ==
  /\ sudoku \in Inputs
  /\ aborted = FALSE
  /\ op = "idle"
  /\ arg = 0
  /\ lockAtCall = FALSE
  /\ ret = None
  /\ it = <<>>
  /\ pulls = <<>>
  /\ cur = sudoku
  /\ steps = 0

\* AbortLock: the one-way transition running -> aborted
Abort ==
  /\ ~aborted
  /\ aborted' = TRUE
  /\ UNCHANGED <<sudoku, op, arg, lockAtCall, ret, it, pulls, cur, steps>>

CallSolution ==
  /\ op = "idle"
  /\ op' = "solution"
  /\ lockAtCall' = aborted
  /\ ret' = solution(sudoku, aborted)
  /\ UNCHANGED <<sudoku, aborted, arg, it, pulls, cur, steps>>

CallIsUnsolvable ==
  /\ op = "idle"
  /\ op' = "is_unsolvable"
  /\ lockAtCall' = aborted
  /\ ret' = is_unsolvable(sudoku)
  /\ UNCHANGED <<sudoku, aborted, arg, it, pulls, cur, steps>>

CallContradiction ==
  /\ op = "idle"
  /\ \E level \in 0 .. MaxLevel :
       /\ arg' = level
       /\ ret' = contradiction(sudoku, level, aborted)
  /\ op' = "contradiction"
  /\ lockAtCall' = aborted
  /\ UNCHANGED <<sudoku, aborted, it, pulls, cur, steps>>

CallHint ==
  /\ op = "idle"
  /\ \E max_level \in 0 .. MaxLevel :
       /\ arg' = max_level
       /\ ret' = hint(sudoku, max_level, aborted)
  /\ op' = "hint"
  /\ lockAtCall' = aborted
  /\ UNCHANGED <<sudoku, aborted, it, pulls, cur, steps>>

CallSolutionIter ==
  /\ op = "idle"
  /\ op' = "solution_iter"
  /\ lockAtCall' = aborted
  /\ it' = <<solution_iter(sudoku, aborted)>>
  /\ UNCHANGED <<sudoku, aborted, arg, ret, pulls, cur, steps>>

\* one Iterator::next by the consumer, which stops at the first None
Pull ==
  /\ op = "solution_iter"
  /\ IF pulls = <<>> THEN TRUE ELSE pulls[Len(pulls)].out # None
  /\ LET r == next(it, aborted)
     IN /\ it' = r.it
        /\ pulls' = Append(pulls, [out |-> r.out, lock |-> aborted])
  /\ UNCHANGED <<sudoku, aborted, op, arg, lockAtCall, ret, cur, steps>>

\* test::solve_by_hints: hint with max_level 2 and a fresh lock each time
HintsMaxLevel == 2

StartSolveByHints ==
  /\ op = "idle"
  /\ op' = "solve_by_hints"
  /\ cur' = sudoku
  /\ steps' = 0
  /\ UNCHANGED <<sudoku, aborted, arg, lockAtCall, ret, it, pulls>>

ApplyHint ==
  /\ op = "solve_by_hints"
  /\ LET h == hint(cur, HintsMaxLevel, FALSE)
     IN /\ h # None
        /\ cur' = Set(cur, h[1][2], h[1][1])
  /\ steps' = steps + 1
  /\ UNCHANGED <<sudoku, aborted, op, arg, lockAtCall, ret, it, pulls>>

FinishSolveByHints ==
  /\ op = "solve_by_hints"
  /\ hint(cur, HintsMaxLevel, FALSE) = None
  /\ op' = "solve_by_hints_done"
  /\ ret' = IF is_solved(cur) THEN Some(cur) ELSE None
  /\ UNCHANGED <<sudoku, aborted, arg, lockAtCall, it, pulls, cur, steps>>

Next ==
  \/ Abort
  \/ CallSolution
  \/ CallIsUnsolvable
  \/ CallContradiction
  \/ CallHint
  \/ CallSolutionIter
  \/ Pull
  \/ StartSolveByHints
  \/ ApplyHint
  \/ FinishSolveByHints

Spec == Init /\ [][Next]_vars

(***************************************************************************)
(* What the claims speak of: the valid completions of a board.            *)
(***************************************************************************)
Rows == {{Idx(<<x, y>>) : x \in 0 .. BoardSize - 1} : y \in 0 .. BoardSize - 1}

Columns == {{Idx(<<x, y>>) : y \in 0 .. BoardSize - 1} : x \in 0 .. BoardSize - 1}

Boxes ==
  {{i \in 1 .. NCells : SameBox(PosOf(i), <<bx * BoxSize, by * BoxSize>>)} :
     bx \in 0 .. BoxSize - 1, by \in 0 .. BoxSize - 1}

\* every cell filled, every row, column and box holds each digit exactly once
ValidGrid(g) ==
  \A u \in Rows \cup Columns \cup Boxes : {g[i] : i \in u} = Digits

\* all ways of filling the cells from i on so that no unit repeats a digit
RECURSIVE Fill(_, _)
Fill(g, i) ==
  IF i > NCells THEN {g}
  ELSE LET free == {e \in Digits : \A j \in Peers(PosOf(i)) : g[j] # e}
       IN UNION {Fill([k \in 1 .. NCells |-> IF k = i THEN d ELSE g[k]], i + 1) : d \in free}

AllGrids == {g \in Fill([i \in 1 .. NCells |-> 0], 1) : ValidGrid(g)}

Agrees(g, s) == \A i \in 1 .. NCells : s[i] # 0 => g[i] = s[i]

Completions(s) == {g \in AllGrids : Agrees(g, s)}

IsCompletion(g, s) ==
  /\ DOMAIN g = 1 .. NCells
  /\ ValidGrid(g)
  /\ Agrees(g, s)

NumEmpty(s) == Cardinality({i \in 1 .. NCells : s[i] = 0})

HasConflict(s) == \E i \in 1 .. NCells : s[i] # 0 /\ s[i] \in used(s, PosOf(i))

\* the boards the iterator has yielded so far
Yielded == SelectSeq([i \in 1 .. Len(pulls) |-> pulls[i].out], LAMBDA o : o # None)

Exhausted == pulls # <<>> /\ pulls[Len(pulls)].out = None

(***************************************************************************)
(* C1  Completeness of solution: on a board with at least one valid        *)
(* completion, with the lock never set, solution returns Some(b) where b   *)
(* is a valid completion of the input (full, every unit holds each digit   *)
(* once, the givens unchanged).                                            *)
(***************************************************************************)
C1_SolutionComplete ==
  (op = "solution" /\ ~lockAtCall /\ Completions(sudoku) # {})
    => (ret # None /\ IsCompletion(ret[1], sudoku))

\* solution has searched a board with several empty cells and several
\* candidates per cell and found a completion
C1_Witness ==
  /\ op = "solution"
  /\ ~lockAtCall
  /\ NumEmpty(sudoku) >= 4
  /\ \A i \in 1 .. NCells : sudoku[i] = 0 => size(available(sudoku, PosOf(i))) > 1
  /\ ret # None
  /\ IsCompletion(ret[1], sudoku)

(***************************************************************************)
(* C2  Enumeration correctness of solution_iter, as claimed: for every     *)
(* input board, lock never set, the fully consumed sequence holds no board *)
(* twice and its boards are exactly the valid completions of the input.    *)
(***************************************************************************)
C2_EnumerationExact ==
  (op = "solution_iter" /\ ~aborted /\ Exhausted)
    => /\ \A i, j \in 1 .. Len(Yielded) : i # j => Yielded[i] # Yielded[j]
       /\ {Yielded[i][1] : i \in 1 .. Len(Yielded)} = Completions(sudoku)

(***************************************************************************)
(* C3  Unsatisfiable and malformed inputs, as claimed: for every board     *)
(* without a valid completion, conflicting givens and full boards          *)
(* included, solution returns None.                                        *)
(***************************************************************************)
C3_NoSolutionIsNone ==
  (op = "solution" /\ ~lockAtCall /\ Completions(sudoku) = {}) => ret = None

(***************************************************************************)
(* C4  Soundness of is_unsolvable: a board on which it returns true has no *)
(* valid completion.                                                       *)
(***************************************************************************)
C4_UnsolvableSound ==
  (op = "is_unsolvable" /\ ret = TRUE) => Completions(sudoku) = {}

\* is_unsolvable has flagged a board whose givens do not conflict and whose
\* empty cells all have a candidate left: a unit without a perfect matching
C4_Witness ==
  /\ op = "is_unsolvable"
  /\ ret = TRUE
  /\ ~HasConflict(sudoku)
  /\ NumEmpty(sudoku) > 0
  /\ \A i \in 1 .. NCells : sudoku[i] = 0 => available(sudoku, PosOf(i)) # {}

(***************************************************************************)
(* C5  Hint validity: when hint returns Some((d, p, l)) with the lock      *)
(* never set, placing d at p does not turn a board that has a completion   *)
(* into one that has none, and for every other digit e of the raw          *)
(* candidate set of p, contradiction(board with e at p, l) is true.        *)
(***************************************************************************)
C5_HintValid ==
  (op = "hint" /\ ~lockAtCall /\ ret # None)
    => LET d == ret[1][1]
           p == ret[1][2]
           l == ret[1][3]
       IN /\ Completions(sudoku) # {} => Completions(Set(sudoku, p, d)) # {}
          /\ \A e \in available(sudoku, p) \ {d} :
               contradiction(Set(sudoku, p, e), l, FALSE)

\* hint has returned a move found at level 2 for a cell with other raw candidates
C5_Witness ==
  /\ op = "hint"
  /\ ~lockAtCall
  /\ ret # None
  /\ ret[1][3] = 2
  /\ size(available(sudoku, ret[1][2])) > 1
  /\ Completions(sudoku) # {}

(***************************************************************************)
(* C6  Cancellation safety: with the lock set before the call, solution    *)
(* returns None, solution_iter yields nothing, contradiction returns false *)
(* and hint returns None, for every board and every level.                 *)
(***************************************************************************)
C6_AbortedBeforeCall ==
  lockAtCall =>
    /\ op = "solution" => ret = None
    /\ op = "contradiction" => ret = FALSE
    /\ op = "hint" => ret = None
    /\ op = "solution_iter" => Yielded = <<>>

\* the iterator of a board with completions, made under a set lock, has been
\* pulled
C6_Witness ==
  /\ lockAtCall
  /\ op = "solution_iter"
  /\ pulls # <<>>
  /\ Completions(sudoku) # {}

(***************************************************************************)
(* C7  Cancellation during enumeration, as claimed: no pull made after the *)
(* lock was set yields a board.                                            *)
(***************************************************************************)
C7_NoYieldAfterAbort ==
  \A i \in 1 .. Len(pulls) : pulls[i].lock => pulls[i].out = None

(***************************************************************************)
(* C8  solution and solution_iter agree: with the lock never set, the      *)
(* first pull from solution_iter(board) gives exactly solution(board):     *)
(* the same board, or nothing when solution returns None.                  *)
(***************************************************************************)
C8_FirstYieldIsSolution ==
  (op = "solution_iter" /\ ~aborted /\ pulls # <<>>)
    => pulls[1].out = solution(sudoku, FALSE)

\* the first board of a board with several completions has been pulled
C8_Witness ==
  /\ op = "solution_iter"
  /\ ~aborted
  /\ pulls # <<>>
  /\ pulls[1].out # None
  /\ Cardinality(Completions(sudoku)) > 1

(***************************************************************************)
(* C9  Level semantics of contradiction (lock never set): false at level   *)
(* 0; is_unsolvable at level 1; at level >= 2 true exactly when some empty *)
(* cell has every digit of its candidate set lead to a board flagged by    *)
(* is_unsolvable or contradictory at level - 1, whatever the order of the  *)
(* cells.                                                                  *)
(***************************************************************************)
C9_LevelSemantics ==
  (op = "contradiction" /\ ~lockAtCall)
    => /\ arg = 0 => ret = FALSE
       /\ arg = 1 => ret = is_unsolvable(sudoku)
       /\ arg >= 2 =>
            ret = (\E i \in {k \in 1 .. NCells : sudoku[k] = 0} :
                     \A d \in inverse(used(sudoku, PosOf(i))) :
                        \/ is_unsolvable(Set(sudoku, PosOf(i), d))
                        \/ contradiction(Set(sudoku, PosOf(i), d), arg - 1, FALSE))

\* contradiction at level >= 2 has refuted a board that is_unsolvable does
\* not flag
C9_Witness ==
  /\ op = "contradiction"
  /\ ~lockAtCall
  /\ arg >= 2
  /\ ret = TRUE
  /\ ~is_unsolvable(sudoku)

(***************************************************************************)
(* C10  Solving by repeated hints: from a board with a unique solution,    *)
(* every move of hint (max_level 2) fills an empty cell, so at most as     *)
(* many moves are applied as the input has empty cells; every board on the *)
(* way still extends to the unique solution; and a loop that stops on a    *)
(* full board stops on the result of solution on the input.                *)
(***************************************************************************)
C10_HintsConverge ==
  (op \in {"solve_by_hints", "solve_by_hints_done"} /\ Cardinality(Completions(sudoku)) = 1)
    => /\ NumEmpty(cur) = NumEmpty(sudoku) - steps
       /\ steps <= NumEmpty(sudoku)
       /\ Agrees(cur, sudoku)
       /\ Completions(cur) = Completions(sudoku)
       /\ (op = "solve_by_hints_done" /\ NumEmpty(cur) = 0)
            => (ret = Some(cur) /\ ret = solution(sudoku, FALSE))

\* the loop has applied several hints and stopped on the full board
C10_Witness ==
  /\ op = "solve_by_hints_done"
  /\ Cardinality(Completions(sudoku)) = 1
  /\ steps >= 4
  /\ NumEmpty(cur) = 0
  /\ ret = Some(cur)

====
